---------------------------- MODULE Spec2Model ----------------------------
(***************************************************************************)
(* Model of cudran_monte_carlo_gpu.cu: the two path kernels pathcalcV1 and *)
(* pathcalcV2, and main (allocation, constants, random generation, kernel  *)
(* launch, copy back, aggregation, release).                               *)
(*                                                                         *)
(* Arithmetic.  The floats and doubles of the code are modelled bit for    *)
(* bit: a value is a sign, a significand of 24 (float) or 53 (double)      *)
(* binary digits and an exponent, and every operation rounds its exact     *)
(* result to the nearest value, ties to even, as IEEE-754 does.  exp is    *)
(* the float nearest to the exact exponential.                             *)
(*                                                                         *)
(* Build.  The source does not say how the kernels are compiled.  In       *)
(* a * b + c the compiler may round the product and then the sum, or       *)
(* contract the two into one fused multiply-add, rounded once (nvcc's      *)
(* default, --fmad=true).  The configuration holds the choice (fmad), and  *)
(* in rho * y1 + alpha * d_z[i] which of the two products is the fused     *)
(* one.  The host code is taken as compiled without contraction.           *)
(*                                                                         *)
(* Sizes.  NPATH and h_N are ints; a byte count is a size_t, so that a     *)
(* negative product is a count beyond any memory.                          *)
(*                                                                         *)
(* Memory.  A float read from memory that nothing has written can be any   *)
(* float.                                                                  *)
(***************************************************************************)
EXTENDS Integers, Sequences, FiniteSets

\* ------------------------------------------------------------------ bounds
MaxN == 2          \* largest number of time steps N
MaxThreads == 4    \* largest number of paths NPATH = gridDim * blockDim

\* sizeof(float)
SizeofFloat == 4

\* ---------------------------------------------------------------- helpers
Max(x, y) == IF x >= y THEN x ELSE y
Min(x, y) == IF x <= y THEN x ELSE y
Xor(s, t) == IF s = t THEN 0 ELSE 1

\* the number of binary digits of the integer n >= 0
RECURSIVE BitLen(_)
BitLen(n) ==
  IF n = 0 THEN 0
  ELSE IF n >= 256 THEN 8 + BitLen(n \div 256)
  ELSE 1 + BitLen(n \div 2)

\* ------------------------------------------------ long natural numbers
\* The significand of a double and the exact products, quotients and roots
\* the roundings start from do not fit TLC's integers.  A long
\* natural number is the sequence of its digits in base 2^14, lowest digit
\* first, without leading zeros; <<>> is 0.
Base == 2 ^ 14

Rest(a) == IF a = <<>> THEN <<>> ELSE Tail(a)
Digit(a, i) == IF i <= Len(a) THEN a[i] ELSE 0

RECURSIVE BTrim(_)
BTrim(a) ==
  IF a = <<>> THEN a
  ELSE IF a[Len(a)] = 0 THEN BTrim(SubSeq(a, 1, Len(a) - 1))
  ELSE a

RECURSIVE BFromInt(_)
BFromInt(n) == IF n = 0 THEN <<>> ELSE <<n % Base>> \o BFromInt(n \div Base)

\* for a below 2^31
RECURSIVE BToInt(_)
BToInt(a) == IF a = <<>> THEN 0 ELSE a[1] + Base * BToInt(Tail(a))

\* a + b + c, c a carry
RECURSIVE BAddC(_, _, _)
BAddC(a, b, c) ==
  IF a = <<>> /\ b = <<>> THEN BFromInt(c)
  ELSE LET t == Digit(a, 1) + Digit(b, 1) + c
       IN <<t % Base>> \o BAddC(Rest(a), Rest(b), t \div Base)
BAdd(a, b) == BAddC(a, b, 0)

\* a - b - c for a >= b + c, c a borrow
RECURSIVE BSubC(_, _, _)
BSubC(a, b, c) ==
  IF a = <<>> THEN <<>>
  ELSE LET t == a[1] - Digit(b, 1) - c
       IN <<t % Base>> \o BSubC(Tail(a), Rest(b), IF t < 0 THEN 1 ELSE 0)
BSub(a, b) == BTrim(BSubC(a, b, 0))

\* -1, 0, 1 as a < b, a = b, a > b
RECURSIVE BCmpAt(_, _, _)
BCmpAt(a, b, i) ==
  IF i = 0 THEN 0
  ELSE IF a[i] < b[i] THEN 0 - 1
  ELSE IF a[i] > b[i] THEN 1
  ELSE BCmpAt(a, b, i - 1)
BCmp(a, b) ==
  IF Len(a) < Len(b) THEN 0 - 1
  ELSE IF Len(a) > Len(b) THEN 1
  ELSE BCmpAt(a, b, Len(a))

\* a * k + c for 0 <= k, c < 2^16
RECURSIVE BMulC(_, _, _)
BMulC(a, k, c) ==
  IF a = <<>> THEN BFromInt(c)
  ELSE LET t == a[1] * k + c
       IN <<t % Base>> \o BMulC(Tail(a), k, t \div Base)

\* a * b, from the highest digit of b down; st = <<i, acc>>: the digits above
\* digit i of b are done
RECURSIVE BMulLoop(_, _, _)
BMulLoop(a, b, st) ==
  IF st[1] = 0 THEN st[2]
  ELSE BMulLoop(a, b,
                <<st[1] - 1,
                  BAdd(IF st[2] = <<>> THEN <<>> ELSE <<0>> \o st[2],
                       BMulC(a, b[st[1]], 0))>>)
BMul(a, b) ==
  IF a = <<>> \/ b = <<>> THEN <<>> ELSE BTrim(BMulLoop(a, b, <<Len(b), <<>>>>))

\* the digits 1..i of a \div k for 0 < k <= 2^14, r the remainder carried in
RECURSIVE BDivAt(_, _, _, _)
BDivAt(a, k, i, r) ==
  IF i = 0 THEN <<>>
  ELSE LET cur == r * Base + a[i]
       IN Append(BDivAt(a, k, i - 1, cur % k), cur \div k)
BDivSmall(a, k) == BTrim(BDivAt(a, k, Len(a), 0))

Zeros(w) == [i \in 1 .. w |-> 0]
\* a * 2^n and a \div 2^n
BShl(a, n) ==
  IF a = <<>> THEN <<>>
  ELSE BTrim(Zeros(n \div 14) \o BMulC(a, 2 ^ (n % 14), 0))
BShr(a, n) ==
  IF n \div 14 >= Len(a) THEN <<>>
  ELSE BDivSmall(SubSeq(a, n \div 14 + 1, Len(a)), 2 ^ (n % 14))

\* the binary digit of weight 2^i
BBit(a, i) == (Digit(a, i \div 14 + 1) \div (2 ^ (i % 14))) % 2
\* some binary digit of weight below 2^n is 1
BLowBits(a, n) ==
  \/ \E j \in 1 .. Min(n \div 14, Len(a)) : a[j] # 0
  \/ Digit(a, n \div 14 + 1) % (2 ^ (n % 14)) # 0
BBitLen(a) == IF a = <<>> THEN 0 ELSE 14 * (Len(a) - 1) + BitLen(a[Len(a)])

\* a * k for 0 <= k < 2^14
BMulSmall(a, k) == BTrim(BMulC(a, k, 0))

\* One digit of a long division: the largest q with q * d <= r, for r < d * Base
\* and a d whose highest digit is at least Base / 2.  The quotient of the two
\* highest digits of r by the highest digit of d is q or at most two more.
RECURSIVE BDigitDown(_, _, _)
BDigitDown(r, d, q) ==
  IF BCmp(BMulSmall(d, q), r) > 0 THEN BDigitDown(r, d, q - 1) ELSE q
BQuotDigit(r, d) ==
  BDigitDown(r, d,
             Min(Base - 1,
                 (Digit(r, Len(d) + 1) * Base + Digit(r, Len(d))) \div d[Len(d)]))

\* long division of n by d, from the highest digit of n down; st = <<i, q, r>>:
\* the digits above digit i of n are done, with quotient q and remainder r
RECURSIVE BDivLoop(_, _, _)
BDivLoop(n, d, st) ==
  IF st[1] = 0 THEN <<BTrim(st[2]), st[3]>>
  ELSE LET r1 == BTrim(<<n[st[1]]>> \o st[3])
           qd == BQuotDigit(r1, d)
       IN BDivLoop(n, d,
                   <<st[1] - 1, <<qd>> \o st[2], BSub(r1, BMulSmall(d, qd))>>)

\* <<n \div d, n % d>> for d > 0
BDivMod(n, d) ==
  LET s == 14 - BitLen(d[Len(d)])
      qr == BDivLoop(BShl(n, s), BShl(d, s), <<Len(BShl(n, s)), <<>>, <<>>>>)
  IN <<qr[1], BShr(qr[2], s)>>

\* Newton's iteration for the integer part of the square root of n, from an
\* x that is not below it
RECURSIVE BNewton(_, _)
BNewton(n, x) ==
  LET y == BShr(BAdd(x, BDivMod(n, x)[1]), 1)
  IN IF BCmp(y, x) >= 0 THEN x ELSE BNewton(n, y)

\* <<s, n - s^2>>, s the integer part of the square root of n
BSqrtRem(n) ==
  IF n = <<>> THEN <<<<>>, <<>>>>
  ELSE LET s == BNewton(n, BShl(<<1>>, (BBitLen(n) + 1) \div 2))
       IN <<s, BSub(n, BMul(s, s))>>

\* x^(2^j) for x in units of 2^-K; st = <<j, x>>
RECURSIVE BSquare(_, _)
BSquare(st, K) ==
  IF st[1] = 0 THEN st[2]
  ELSE BSquare(<<st[1] - 1, BShr(BMul(st[2], st[2]), K)>>, K)

\* ------------------------------------------------------- number formats
\* IEEE-754 binary32 (float) and binary64 (double).  A value is the record
\* [k, s, m, e]: k = "num" is (-1)^s * m * 2^e, with m of exactly p binary
\* digits (less only when e = emin: the subnormal numbers) and 0 as m = 0,
\* e = 0; k = "inf" is the infinity of sign s; k = "nan" is NaN; k = "uninit"
\* is the content of memory that was allocated and never written.  The m of a
\* float is an integer, the m of a double a long natural number.  Every
\* operation rounds its exact result to the nearest value of the format, ties
\* to the even significand.
Single == [p |-> 24, emin |-> 0 - 149, emax |-> 104]
Double == [p |-> 53, emin |-> 0 - 1074, emax |-> 971]

Num(s, m, e) == [k |-> "num", s |-> s, m |-> m, e |-> e]
NaN == [k |-> "nan", s |-> 0, m |-> 0, e |-> 0]
Uninit == [k |-> "uninit", s |-> 0, m |-> 0, e |-> 0]
FInf(s) == [k |-> "inf", s |-> s, m |-> 0, e |-> 0]
FZero(s) == Num(s, 0, 0)
DNaN == [k |-> "nan", s |-> 0, m |-> <<>>, e |-> 0]
DInf(s) == [k |-> "inf", s |-> s, m |-> <<>>, e |-> 0]
DZero(s) == Num(s, <<>>, 0)

IsNum(a) == a.k = "num"
IsInf(a) == a.k = "inf"
IsNaN(a) == a.k \notin {"num", "inf"}

\* a float with its significand as a long number, and back
Long(a) == [a EXCEPT !.m = BFromInt(a.m)]
Short(x) == [x EXCEPT !.m = BToInt(x.m)]

\* the value of the format nearest to (-1)^s * (M + f) * 2^e, where 0 < f < 1
\* when st = 1 (M then has more than p + 1 digits) and f = 0 when st = 0
Round(fmt, s, M, e, st) ==
  IF M = <<>> THEN DZero(s)
  ELSE
    LET L == BBitLen(M)
        sh == Max(L - fmt.p, fmt.emin - e)
    IN IF sh <= 0
       THEN LET t == Min(fmt.p - L, e - fmt.emin)
            IN IF e - t > fmt.emax THEN DInf(s) ELSE Num(s, BShl(M, t), e - t)
       ELSE LET q == BShr(M, sh)
                half == BBit(M, sh - 1) = 1
                low == st = 1 \/ BLowBits(M, sh - 1)
                up == half /\ (low \/ BBit(q, 0) = 1)
                q1 == IF up THEN BAddC(q, <<>>, 1) ELSE q
                over == BBitLen(q1) > fmt.p
                q2 == IF over THEN BShr(q1, 1) ELSE q1
                e2 == e + sh + (IF over THEN 1 ELSE 0)
            IN IF q2 = <<>> THEN DZero(s)
               ELSE IF e2 > fmt.emax THEN DInf(s)
               ELSE Num(s, q2, e2)

\* ------------------------------------ the operations, in either format
Neg(a) == IF IsNaN(a) THEN a ELSE [a EXCEPT !.s = 1 - a.s]

Mul(fmt, a, b) ==
  IF IsNaN(a) \/ IsNaN(b) THEN DNaN
  ELSE IF IsInf(a) \/ IsInf(b)
  THEN (IF (IsNum(a) /\ a.m = <<>>) \/ (IsNum(b) /\ b.m = <<>>) THEN DNaN
        ELSE DInf(Xor(a.s, b.s)))
  ELSE Round(fmt, Xor(a.s, b.s), BMul(a.m, b.m), a.e + b.e, 0)

Add(fmt, a, b) ==
  IF IsNaN(a) \/ IsNaN(b) THEN DNaN
  ELSE IF IsInf(a) THEN (IF IsInf(b) /\ a.s # b.s THEN DNaN ELSE DInf(a.s))
  ELSE IF IsInf(b) THEN DInf(b.s)
  ELSE IF a.m = <<>> /\ b.m = <<>> THEN DZero(IF a.s = b.s THEN a.s ELSE 0)
  ELSE IF a.m = <<>> THEN Round(fmt, b.s, b.m, b.e, 0)
  ELSE IF b.m = <<>> THEN Round(fmt, a.s, a.m, a.e, 0)
  ELSE
    LET e0 == Min(a.e, b.e)
        A == BShl(a.m, a.e - e0)
        B == BShl(b.m, b.e - e0)
        c == BCmp(A, B)
    IN IF a.s = b.s THEN Round(fmt, a.s, BAdd(A, B), e0, 0)
       ELSE IF c = 0 THEN DZero(0)
       ELSE IF c > 0 THEN Round(fmt, a.s, BSub(A, B), e0, 0)
       ELSE Round(fmt, b.s, BSub(B, A), e0, 0)

\* a * b + c rounded once
Fma(fmt, a, b, c) ==
  IF IsNaN(a) \/ IsNaN(b) \/ IsNaN(c) THEN DNaN
  ELSE IF IsInf(a) \/ IsInf(b)
  THEN (IF (IsNum(a) /\ a.m = <<>>) \/ (IsNum(b) /\ b.m = <<>>) THEN DNaN
        ELSE IF IsInf(c) /\ c.s # Xor(a.s, b.s) THEN DNaN
        ELSE DInf(Xor(a.s, b.s)))
  ELSE Add(fmt, Num(Xor(a.s, b.s), BMul(a.m, b.m), a.e + b.e), c)

Div(fmt, a, b) ==
  IF IsNaN(a) \/ IsNaN(b) THEN DNaN
  ELSE IF IsInf(a) THEN (IF IsInf(b) THEN DNaN ELSE DInf(Xor(a.s, b.s)))
  ELSE IF IsInf(b) THEN DZero(Xor(a.s, b.s))
  ELSE IF b.m = <<>> THEN (IF a.m = <<>> THEN DNaN ELSE DInf(Xor(a.s, b.s)))
  ELSE IF a.m = <<>> THEN DZero(Xor(a.s, b.s))
  ELSE
    LET k == Max(0, fmt.p + 2 + BBitLen(b.m) - BBitLen(a.m))
        qr == BDivMod(BShl(a.m, k), b.m)
    IN Round(fmt, Xor(a.s, b.s), qr[1], a.e - b.e - k,
             IF qr[2] = <<>> THEN 0 ELSE 1)

Sqrt(fmt, a) ==
  IF IsNaN(a) THEN DNaN
  ELSE IF IsNum(a) /\ a.m = <<>> THEN DZero(a.s)
  ELSE IF a.s = 1 THEN DNaN
  ELSE IF IsInf(a) THEN DInf(0)
  ELSE
    LET k0 == Max(0, 2 * (fmt.p + 2) - BBitLen(a.m))
        k == IF (a.e - k0) % 2 = 0 THEN k0 ELSE k0 + 1
        sr == BSqrtRem(BShl(a.m, k))
    IN Round(fmt, 0, sr[1], (a.e - k) \div 2, IF sr[2] = <<>> THEN 0 ELSE 1)

\* <<the sum of the even terms, the sum of the odd terms>> of the power series
\* of exp(x), x = M * 2^e (e < 0), in units of 2^-K; st = <<j, t, even, odd>>:
\* the terms before term j are summed, t is the term x^j / j!
RECURSIVE ExpSeries(_, _, _)
ExpSeries(M, e, st) ==
  IF st[2] = <<>> THEN <<st[3], st[4]>>
  ELSE ExpSeries(M, e,
                 <<st[1] + 1,
                   BDivSmall(BShr(BMul(st[2], M), 0 - e), st[1] + 1),
                   IF st[1] % 2 = 0 THEN BAdd(st[3], st[2]) ELSE st[3],
                   IF st[1] % 2 = 1 THEN BAdd(st[4], st[2]) ELSE st[4]>>)

\* exp in float: the float nearest to e^a.  |a| < 2^n is divided by 2^J so
\* that the series has few terms, and the result is squared J times.
ExpSingle(a) ==
  IF IsNaN(a) THEN DNaN
  ELSE IF IsInf(a) THEN (IF a.s = 0 THEN DInf(0) ELSE DZero(0))
  ELSE IF a.m = <<>> THEN Round(Single, 0, <<1>>, 0, 0)
  ELSE IF BBitLen(a.m) + a.e > 7 THEN (IF a.s = 0 THEN DInf(0) ELSE DZero(0))
  ELSE
    LET n == BBitLen(a.m) + a.e
        J == Max(0, n + 8)
        K == 64 + J + 3 * (2 ^ Max(0, n - 1))
        eo == ExpSeries(a.m, a.e - J, <<0, BShl(<<1>>, K), <<>>, <<>>>>)
        y == IF a.s = 0 THEN BAdd(eo[1], eo[2]) ELSE BSub(eo[1], eo[2])
    IN Round(Single, 0, BSquare(<<J, y>>, K), 0 - K, 1)

\* ------------------------------------------------------ float arithmetic
TwoP12 == 2 ^ 12
TwoP23 == 2 ^ 23
TwoP24 == 2 ^ 24

\* the float nearest to (-1)^s * R * 2^e, for an integer 0 < R < 2^31
RoundInt(s, R, e) ==
  LET L == BitLen(R)
      sh == Max(L - 24, Single.emin - e)
  IN IF sh <= 0
     THEN LET t == Min(24 - L, e - Single.emin)
          IN IF e - t > Single.emax THEN FInf(s) ELSE Num(s, R * (2 ^ t), e - t)
     ELSE IF sh > 30 THEN FZero(s)
     ELSE LET q == R \div (2 ^ sh)
              rem == R % (2 ^ sh)
              half == 2 ^ (sh - 1)
              up == rem > half \/ (rem = half /\ q % 2 = 1)
              q1 == IF up THEN q + 1 ELSE q
              q2 == IF q1 = TwoP24 THEN TwoP23 ELSE q1
              e2 == e + sh + (IF q1 = TwoP24 THEN 1 ELSE 0)
          IN IF q2 = 0 THEN FZero(s)
             ELSE IF e2 > Single.emax THEN FInf(s)
             ELSE Num(s, q2, e2)

\* the product of two floats of full significand, by halves of 12 digits:
\* ma * mb = H * 2^24 + L
MulNormal(s, ma, ea, mb, eb) ==
  LET a1 == ma \div TwoP12
      a0 == ma % TwoP12
      b1 == mb \div TwoP12
      b0 == mb % TwoP12
      mid == a1 * b0 + a0 * b1
      t == a0 * b0 + (mid % TwoP12) * TwoP12
      H == a1 * b1 + mid \div TwoP12 + t \div TwoP24
      L == t % TwoP24
      big == H >= TwoP23
      q == IF big THEN H ELSE 2 * H + L \div TwoP23
      rem == IF big THEN L ELSE 2 * (L % TwoP23)
      up == rem > TwoP23 \/ (rem = TwoP23 /\ q % 2 = 1)
      q1 == IF up THEN q + 1 ELSE q
      e == ea + eb + (IF big THEN 24 ELSE 23)
  IN IF q1 = TwoP24 THEN Num(s, TwoP23, e + 1) ELSE Num(s, q1, e)

FMul(a, b) ==
  IF /\ IsNum(a) /\ IsNum(b) /\ a.m >= TwoP23 /\ b.m >= TwoP23
     /\ a.e + b.e + 23 >= Single.emin /\ a.e + b.e + 25 <= Single.emax
  THEN MulNormal(Xor(a.s, b.s), a.m, a.e, b.m, b.e)
  ELSE IF IsNum(a) /\ IsNum(b) /\ (a.m = 0 \/ b.m = 0) THEN FZero(Xor(a.s, b.s))
  ELSE Short(Mul(Single, Long(a), Long(b)))

\* a + b for two floats that are numbers, not 0, a the larger in magnitude:
\* the smaller one is aligned with the larger one extended by 6 digits, what
\* falls off below is kept as one digit that tells that something did
AddOrdered(a, b) ==
  LET d == a.e - b.e
      sg == IF a.s = b.s THEN 1 ELSE 0 - 1
      k == d - 5
      Y == IF k > 24 THEN 0 ELSE b.m \div (2 ^ k)
      st == IF k > 24 THEN 1 ELSE IF b.m % (2 ^ k) = 0 THEN 0 ELSE 1
  IN IF d <= 5
     THEN LET R == a.m * (2 ^ d) + sg * b.m
          IN IF R = 0 THEN FZero(0) ELSE RoundInt(a.s, R, b.e)
     ELSE RoundInt(a.s, 2 * (32 * a.m + sg * Y) + sg * st, a.e - 6)

FAdd(a, b) ==
  IF IsNaN(a) \/ IsNaN(b) THEN NaN
  ELSE IF IsInf(a) THEN (IF IsInf(b) /\ a.s # b.s THEN NaN ELSE a)
  ELSE IF IsInf(b) THEN b
  ELSE IF a.m = 0 /\ b.m = 0 THEN FZero(IF a.s = b.s THEN a.s ELSE 0)
  ELSE IF a.m = 0 THEN b
  ELSE IF b.m = 0 THEN a
  ELSE IF a.e > b.e \/ (a.e = b.e /\ a.m >= b.m) THEN AddOrdered(a, b)
  ELSE AddOrdered(b, a)

\* the float nearest to (-1)^s * (SH * 2^24 + SL + f) * 2^e, where 0 <= f < 1
\* and st tells whether f is not 0
RoundTwo(s, SH, SL, st, e) ==
  LET sh == Max(BitLen(SH) - 6, 0)
      X == SH * (2 ^ (24 - sh)) + SL \div (2 ^ sh)
      lost == IF st = 1 \/ SL % (2 ^ sh) # 0 THEN 1 ELSE 0
  IN IF SH = 0 /\ SL = 0 THEN FZero(0)
     ELSE RoundInt(s, 2 * X + lost, e + sh - 1)

\* a * b + c rounded once, for a and b of full significand and c of full
\* significand or 0.  The product is exact in two halves of 24 digits,
\* ma * mb = H * 2^24 + L.  When c is far above it, the product is aligned
\* with c as in AddOrdered; otherwise c is aligned with the product, the part
\* of c below the last digit of the product being kept as fr.
FmaNormal(a, b, c) ==
  LET s == Xor(a.s, b.s)
      ep == a.e + b.e
      a1 == a.m \div TwoP12
      a0 == a.m % TwoP12
      b1 == b.m \div TwoP12
      b0 == b.m % TwoP12
      mid == a1 * b0 + a0 * b1
      t == a0 * b0 + (mid % TwoP12) * TwoP12
      H == a1 * b1 + mid \div TwoP12 + t \div TwoP24
      L == t % TwoP24
      d == c.e - ep
      sg == IF c.s = s THEN 1 ELSE 0 - 1
  IN IF c.m = 0 THEN RoundTwo(s, H, L, 0, ep)
     ELSE IF d >= 26
     THEN LET k == d - 5
              Y == IF k >= 48 THEN 0
                   ELSE IF k >= 24 THEN H \div (2 ^ (k - 24))
                   ELSE H * (2 ^ (24 - k)) + L \div (2 ^ k)
              st == IF k >= 48 THEN 1
                    ELSE IF k >= 24
                    THEN (IF H % (2 ^ (k - 24)) # 0 \/ L # 0 THEN 1 ELSE 0)
                    ELSE (IF L % (2 ^ k) # 0 THEN 1 ELSE 0)
          IN RoundInt(c.s, 2 * (32 * c.m + sg * Y) + sg * st, c.e - 6)
     ELSE LET n == 0 - d
              CH == IF d >= 24 THEN c.m * (2 ^ (d - 24))
                    ELSE IF d >= 0 THEN c.m \div (2 ^ (24 - d))
                    ELSE 0
              CL == IF d >= 24 THEN 0
                    ELSE IF d >= 0 THEN (c.m % (2 ^ (24 - d))) * (2 ^ d)
                    ELSE IF n >= 24 THEN 0
                    ELSE c.m \div (2 ^ n)
              fr == IF d >= 0 THEN 0
                    ELSE IF n >= 24 THEN 1
                    ELSE IF c.m % (2 ^ n) # 0 THEN 1 ELSE 0
              over == sg < 0 /\ (CH > H \/ (CH = H /\ CL > L))
              XH == IF over THEN CH ELSE H
              XL == IF over THEN CL ELSE L
              YH == IF over THEN H ELSE CH
              YL == IF over THEN L ELSE CL
              lo == XL + sg * YL - (IF sg < 0 THEN fr ELSE 0)
          IN RoundTwo(IF over THEN c.s ELSE s, XH + sg * YH + lo \div TwoP24,
                      lo % TwoP24, fr, ep)

\* fmaf(a, b, c)
FFma(a, b, c) ==
  IF /\ IsNum(a) /\ IsNum(b) /\ IsNum(c)
     /\ a.m >= TwoP23 /\ b.m >= TwoP23 /\ (c.m >= TwoP23 \/ c.m = 0)
     /\ a.e + b.e > Single.emin /\ a.e + b.e + 49 <= Single.emax
  THEN FmaNormal(a, b, c)
  ELSE IF IsNum(a) /\ IsNum(b) /\ (a.m = 0 \/ b.m = 0)
  THEN FAdd(FZero(Xor(a.s, b.s)), c)
  ELSE Short(Fma(Single, Long(a), Long(b), Long(c)))

FNeg(a) == IF IsNaN(a) THEN NaN ELSE Neg(a)
FSub(a, b) == FAdd(a, FNeg(b))
FAbs(a) == IF IsNaN(a) THEN NaN ELSE [a EXCEPT !.s = 0]
FDiv(a, b) == Short(Div(Single, Long(a), Long(b)))
FSqrt(a) == Short(Sqrt(Single, Long(a)))
\* the float nearest to exp(a)
ExpNearest(a) == Short(ExpSingle(Long(a)))

\* a < b; a comparison with NaN is false
MagLess(a, b) ==
  IF IsInf(a) THEN FALSE
  ELSE IF IsInf(b) THEN TRUE
  ELSE IF b.m = 0 THEN FALSE
  ELSE IF a.m = 0 THEN TRUE
  ELSE a.e < b.e \/ (a.e = b.e /\ a.m < b.m)
FLess(a, b) ==
  /\ ~IsNaN(a)
  /\ ~IsNaN(b)
  /\ IF a.s = 0 /\ b.s = 0 THEN MagLess(a, b)
     ELSE IF a.s = 1 /\ b.s = 1 THEN MagLess(b, a)
     ELSE a.s = 1 /\ ~(IsNum(a) /\ a.m = 0 /\ IsNum(b) /\ b.m = 0)

\* (float) n for an int n
IntToFloat(n) ==
  Short(Round(Single, IF n < 0 THEN 1 ELSE 0,
              BFromInt(IF n < 0 THEN 0 - n ELSE n), 0, 0))
\* the literal num/den as a float, e.g. 0.05f is Lit(5, 100)
Lit(num, den) == FDiv(IntToFloat(num), IntToFloat(den))

One == IntToFloat(1)
Tenth == Lit(1, 10)

\* every value a number of format fmt can hold: the normal and the subnormal
\* numbers, the zeros, the infinities and NaN
Floats(fmt) ==
  [k : {"num"}, s : 0 .. 1, m : (2 ^ (fmt.p - 1)) .. (2 ^ fmt.p - 1),
   e : fmt.emin .. fmt.emax]
    \cup [k : {"num"}, s : 0 .. 1, m : 1 .. (2 ^ (fmt.p - 1) - 1),
          e : {fmt.emin}]
    \cup {FZero(0), FZero(1), FInf(0), FInf(1), NaN}

\* ----------------------------------------------------- double arithmetic
\* float -> double keeps the value
ToDouble(a) == IF IsNum(a) THEN Round(Double, a.s, BFromInt(a.m), a.e, 0) ELSE Long(a)
IntToDouble(n) ==
  Round(Double, IF n < 0 THEN 1 ELSE 0, BFromInt(IF n < 0 THEN 0 - n ELSE n), 0, 0)
DAdd(a, b) == Add(Double, a, b)
DSub(a, b) == Add(Double, a, Neg(b))
DMul(a, b) == Mul(Double, a, b)
DDiv(a, b) == Div(Double, a, b)
DSqrt(a) == Sqrt(Double, a)

\* ------------------------------------------------------------- the inputs
\* main fixes NPATH = 960000 = 15000 * 64, h_N = 100, T = 1, r = 0.05,
\* sigma = 0.1, rho = 0.5 and the seed 1234.  The model runs the same program
\* over small grids (NPATH a multiple of the block size, as in main) and over
\* the parameter values below.  A grid is <<N, blockDim, gridDim>>, with
\* NPATH = blockDim * gridDim.  main checks neither NPATH nor h_N: the grids
\* include those in which one of them is 0 or negative.
CodeSeed == 1234
Seeds == {CodeSeed}
Kernels == {"V1", "V2"}
Horizon == One
Rates == {FZero(0), Lit(5, 100)}
\* how the kernels are compiled: every operation rounded on its own, or
\* a * b + c contracted into a fused multiply-add; of rho * y1 + alpha * z
\* the first or the second product is then the fused one
Contractions == {"off", "first", "second"}
\* <<r, sigma, rho, fmad>>: main's 0.05, 0.1, 0.5, without and with
\* contraction; no rate and no volatility; a rate and no volatility; main's
\* rate and volatility with a correlation outside [-1, 1]
Params ==
  {<<Lit(5, 100), Tenth, Lit(1, 2), "off">>,
   <<Lit(5, 100), Tenth, Lit(1, 2), "first">>,
   <<FZero(0), FZero(0), Lit(1, 2), "second">>,
   <<Lit(2, 100), FZero(0), Lit(1, 2), "off">>,
   <<Lit(5, 100), Tenth, IntToFloat(2), "first">>}
DevMems == {8, 24, 4096}

Grids ==
  {g \in (1 .. MaxN) \X (1 .. MaxThreads) \X (1 .. MaxThreads) :
     g[2] * g[3] <= MaxThreads}

\* grids with no time step or no path, or a negative number of them
BadGrids ==
  {g \in ((0 - 1) .. 1) \X (1 .. 2) \X ((0 - 1) .. 1) :
     g[1] <= 0 \/ g[3] <= 0}

\* NPATH, h_N, the block size and the literals of lines 145-148; h_alpha,
\* h_dt, h_con1 and h_con2 are declared and not yet assigned
Config(g, r, sigma, rho, fmad) ==
  [N |-> g[1], B |-> g[2], NPATH |-> g[2] * g[3],
   T |-> Horizon, r |-> r, sigma |-> sigma, rho |-> rho, fmad |-> fmad,
   alpha |-> Uninit, dt |-> Uninit, con1 |-> Uninit, con2 |-> Uninit]

HostConfigs ==
  {Config(g, pr[1], pr[2], pr[3], pr[4]) :
     g \in Grids \cup BadGrids, pr \in Params}

\* exp: the float nearest to the exponential.  The values at -r*T for the
\* rates above are computed once and looked up.
ExpArgs == {FMul(FNeg(rt), Horizon) : rt \in Rates \cup {pr[1] : pr \in Params}}
ExpTable == {<<a, ExpNearest(a)>> : a \in ExpArgs}
FExp(a) ==
  IF a \in ExpArgs THEN (CHOOSE p \in ExpTable : p[1] = a)[2] ELSE ExpNearest(a)

\* --------------------------------------------------------------- constants
\* variant: the volatility added to sqrt(dt) instead of scaling it
Con2Additive(dt, sigma) == FAdd(FSqrt(dt), sigma)
\* h_con2 = sqrt(h_dt) * h_sigma
Con2(dt, sigma) == FMul(FSqrt(dt), sigma)

\* h_alpha = sqrt(1.0f - h_rho*h_rho); h_dt = 1.0f/h_N;
\* h_con1 = 1.0f + h_r*h_dt; h_con2 = sqrt(h_dt)*h_sigma
HostValues(h) ==
  LET dt == FDiv(One, IntToFloat(h.N))
  IN [h EXCEPT !.alpha = FSqrt(FSub(One, FMul(h.rho, h.rho))),
               !.dt = dt,
               !.con1 = FAdd(One, FMul(h.r, dt)),
               !.con2 = Con2(dt, h.sigma)]

\* the host variables that lines 154-162 copy to the device constants
DeviceConstants(h) ==
  [N |-> h.N, T |-> h.T, r |-> h.r, sigma |-> h.sigma, rho |-> h.rho,
   alpha |-> h.alpha, dt |-> h.dt, con1 |-> h.con1, con2 |-> h.con2]

\* __constant__ variables are zero before cudaMemcpyToSymbol
ZeroConstants ==
  [N |-> 0, T |-> FZero(0), r |-> FZero(0), sigma |-> FZero(0),
   rho |-> FZero(0), alpha |-> FZero(0), dt |-> FZero(0), con1 |-> FZero(0),
   con2 |-> FZero(0)]

\* the nine cudaMemcpyToSymbol of lines 154-162, in their order
CopyOrder ==
  <<"N", "T", "r", "sigma", "rho", "alpha", "dt", "con1", "con2">>

\* the __constant__ variables when the first done copies have been made
StoredConstants(h, done) ==
  [f \in DOMAIN ZeroConstants |->
     IF \E j \in 1 .. done : CopyOrder[j] = f THEN DeviceConstants(h)[f]
     ELSE ZeroConstants[f]]

\* ------------------------------------------------------------- allocation
\* cudaMalloc succeeds when the request fits in the free device memory.  The
\* request is a size_t: a negative product of ints is a count of more than
\* 2^63 bytes, which no memory holds.
MallocOK(free, bytes) == 0 <= bytes /\ bytes <= free

\* an array of len floats that nothing has written; of none when the
\* allocation has failed or has not been made
Buffer(len) == [i \in 0 .. (len - 1) |-> Uninit]
BytesV(h) == SizeofFloat * h.NPATH
BytesZ(h) == SizeofFloat * 2 * h.N * h.NPATH

\* ------------------------------------------------------------- generation
\* curandGenerateNormal is cuRAND's: a stream of standard-normal floats that
\* is a function of the seed alone.  Here the generator state steps through a
\* full-period congruence, and each draw is one of five values of a standard
\* normal: its quantiles at 0.1, 0.25, 0.6, 0.9, and 0.50000012 (0x3f000002),
\* a draw at which the builds with and without contraction compute different
\* levels.
Draws ==
  <<FNeg(Lit(12815516, 10000000)), FNeg(Lit(6744898, 10000000)),
    Lit(2533471, 10000000), Lit(12815516, 10000000),
    Num(0, TwoP23 + 2, 0 - 24)>>
LcgNext(x) == (5 * x + 3) % 16
RECURSIVE LcgState(_, _)
LcgState(sd, j) == IF j = 0 THEN sd % 16 ELSE LcgNext(LcgState(sd, j - 1))
GenValue(sd, j) == Draws[(LcgState(sd, j) % Len(Draws)) + 1]

\* ---------------------------------------------------------------- kernels
ThreadIdx(p, bdim) == p % bdim
BlockIdx(p, bdim) == p \div bdim

\* variant: N values per path and block instead of 2*N
InitIndexHalf(kern, n, tid, bid, bdim) ==
  IF kern = "V1" THEN tid + n * bid * bdim
  ELSE n * tid + 2 * n * bid * bdim
\* int i = threadIdx.x + 2*N*blockIdx.x*blockDim.x        (pathcalcV1)
\* int i = 2*N*threadIdx.x + 2*N*blockIdx.x*blockDim.x    (pathcalcV2)
InitIndex(kern, n, tid, bid, bdim) ==
  IF kern = "V1" THEN tid + 2 * n * bid * bdim
  ELSE 2 * n * tid + 2 * n * bid * bdim

\* variant: pathcalcV1 steps by 1 as pathcalcV2 does
StrideUnit(kern, bdim) == 1
\* i += blockDim.x (pathcalcV1), i += 1 (pathcalcV2)
Stride(kern, bdim) == IF kern = "V1" THEN bdim ELSE 1

\* variant: the block offset is left out
StoreSlotLocal(tid, bid, bdim) == tid
\* d_v[threadIdx.x + blockIdx.x * blockDim.x]
StoreSlot(tid, bid, bdim) == tid + bid * bdim

\* what is at d_z[i]; outside the buffer, memory that nothing has written
ReadZ(z, i) == IF i \in DOMAIN z THEN z[i] ELSE Uninit

\* what a read of a float yields: an unwritten slot holds any value
ReadVals(x) == IF x.k = "uninit" THEN Floats(Single) ELSE {x}

\* variant: the two draws exchanged
\* a * b + x as the build computes it: the product rounded and then the
\* sum, or the two in one fused multiply-add
MulAdd(fm, a, b, x) ==
  IF fm = "off" THEN FAdd(FMul(a, b), x) ELSE FFma(a, b, x)

\* variant: the two draws exchanged
CorrelatedShockSwapped(fm, c, y1, z2) ==
  MulAdd(fm, c.rho, z2, FMul(c.alpha, y1))
\* y2 = rho * y1 + alpha * d_z[i]; when the second product is the fused one,
\* the first is the rounded one
CorrelatedShock(fm, c, y1, z2) ==
  LET second == fm = "second"
  IN MulAdd(fm, IF second THEN c.alpha ELSE c.rho,
            IF second THEN z2 ELSE y1,
            FMul(IF second THEN c.rho ELSE c.alpha,
                 IF second THEN y1 ELSE z2))

\* con1 + con2 * y
Growth(fm, c, y) == MulAdd(fm, c.con2, y, c.con1)

\* variant: the test without fabs
InCorridorAbove(s) == FLess(FSub(s, One), Tenth)
\* fabs(s - 1.0f) < 0.1f
InCorridor(s) == FLess(FAbs(FSub(s, One)), Tenth)

\* exp(-r * T)
Discount(c) == FExp(FMul(FNeg(c.r), c.T))

\* the declarations and initialisations before the loop
ThreadStart(kern, c, tid, bid, bdim) ==
  [pc |-> "loop", i |-> InitIndex(kern, c.N, tid, bid, bdim), n |-> 0,
   s1 |-> One, s2 |-> One, y1 |-> Uninit, y2 |-> Uninit]

\* the position of the second read of an iteration
SecondRead(kern, st, bdim) == st.i + Stride(kern, bdim)

\* one iteration of the path loop, in which the two reads of d_z yield y1 and
\* z2
LoopStep(kern, fm, c, y1, z2, st, bdim) ==
  LET y2 == CorrelatedShock(fm, c, y1, z2)
  IN [st EXCEPT !.i = SecondRead(kern, st, bdim) + Stride(kern, bdim),
                !.n = st.n + 1, !.y1 = y1, !.y2 = y2,
                !.s1 = FMul(st.s1, Growth(fm, c, y1)),
                !.s2 = FMul(st.s2, Growth(fm, c, y2))]

\* one iteration of the path loop over a buffer z that has been filled
LoopBody(kern, fm, c, z, st, bdim) ==
  LoopStep(kern, fm, c, ReadZ(z, st.i), ReadZ(z, SecondRead(kern, st, bdim)),
           st, bdim)

\* payoff = 0, or exp(-r*T) when both levels are inside the corridor
Payoff(c, st) ==
  IF InCorridor(st.s1) /\ InCorridor(st.s2) THEN Discount(c) ELSE FZero(0)

\* the whole loop of one thread, run to its end
RECURSIVE RunLoop(_, _, _, _, _, _)
RunLoop(kern, fm, c, z, st, bdim) ==
  IF st.n < c.N
  THEN RunLoop(kern, fm, c, z, LoopBody(kern, fm, c, z, st, bdim), bdim)
  ELSE st

\* the payoff thread p of the grid computes from the filled buffer z
PathPayoff(kern, fm, c, z, p, bdim) ==
  Payoff(c,
         RunLoop(kern, fm, c, z,
                 ThreadStart(kern, c, ThreadIdx(p, bdim), BlockIdx(p, bdim),
                             bdim),
                 bdim))

\* ------------------------------------------------------------ aggregation
\* sum1 += h_v[i]; sum2 += h_v[i] * h_v[i]   (float product, double sums)
Accumulate(a, v) ==
  [i |-> a.i + 1,
   sum1 |-> DAdd(a.sum1, ToDouble(v)),
   sum2 |-> DAdd(a.sum2, ToDouble(FMul(v, v)))]

\* the two values printed at the end of main: sum1 / NPATH and
\* sqrt((sum2 / NPATH - (sum1 / NPATH) * (sum1 / NPATH)) / NPATH), in double
Report(a, npath) ==
  LET mean == DDiv(a.sum1, IntToDouble(npath))
      var == DSub(DDiv(a.sum2, IntToDouble(npath)), DMul(mean, mean))
  IN [mean |-> mean, stderr |-> DSqrt(DDiv(var, IntToDouble(npath)))]

\* sum1 = 0.0; sum2 = 0.0
NoAgg == [i |-> 0, sum1 |-> DZero(0), sum2 |-> DZero(0)]
NoResult == [mean |-> Uninit, stderr |-> Uninit]

RECURSIVE SumUpTo(_, _, _)
SumUpTo(hv, a, npath) ==
  IF a.i < npath THEN SumUpTo(hv, Accumulate(a, hv[a.i]), npath) ELSE a

\* ------------------------------------------------------------------ state
VARIABLES
  pc,        \* where main is
  hostc,     \* NPATH, h_N, the block size and the host's h_ variables
  devMem,    \* the device's memory, in bytes
  devUsed,   \* the bytes of it cudaMalloc has handed out
  seed,      \* the generator seed
  kernel,    \* the kernel main launches
  devc,      \* the __constant__ variables
  d_z,       \* the random buffer on the device
  genCount,  \* how many positions of d_z the generator has filled
  d_v,       \* the payoff array on the device
  th,        \* the kernel's threads, by global thread number
  stored,    \* per thread, the d_v slots it has stored to (history)
  h_v,       \* the payoff array on the host
  agg,       \* the aggregation loop: i, sum1, sum2
  result,    \* the printed mean and standard error
  lay        \* the two-layout harness of SpecLayout

vars ==
  <<pc, hostc, devMem, devUsed, seed, kernel, devc, d_z, genCount, d_v, th,
    stored, h_v, agg, result, lay>>

LayOff == [pc |-> "off"]

Init ==
  /\ pc = "alloc_v"
  /\ hostc \in HostConfigs
  /\ devMem \in DevMems
  /\ devUsed = 0
  /\ seed \in Seeds
  /\ kernel \in Kernels
  /\ devc = ZeroConstants
  /\ d_z = Buffer(0)
  /\ genCount = 0
  /\ d_v = Buffer(0)
  /\ th = Buffer(0)
  /\ stored = Buffer(0)
  /\ h_v = Buffer(hostc.NPATH)
  /\ agg = NoAgg
  /\ result = NoResult
  /\ lay = LayOff

ZLen == 2 * hostc.N * hostc.NPATH
\* curandGenerateNormal has filled the whole buffer
\* variant: nothing waits for the generator
GenAlwaysComplete == TRUE
GenComplete == genCount = ZLen

\* every thread of the grid has returned
\* variant: nothing waits for the kernel
KernelNeverAwaited == TRUE
KernelComplete == \A p \in DOMAIN th : th[p].pc = "done"

\* the launch <<<NPATH / 64, 64>>>: NPATH / blockDim blocks, and gridDim *
\* blockDim threads
GridDim(h) == h.NPATH \div h.B
GridThreads(h) == 0 .. (GridDim(h) * h.B - 1)

\* ---------------------------------------------------------- main, in order
\* cudaMalloc(&d_v, sizeof(float) * NPATH), checked
AllocV ==
  /\ pc = "alloc_v"
  /\ IF MallocOK(devMem - devUsed, BytesV(hostc))
     THEN /\ d_v' = Buffer(hostc.NPATH)
          /\ devUsed' = devUsed + BytesV(hostc)
          /\ pc' = "alloc_z"
     ELSE /\ pc' = "failed"
          /\ UNCHANGED <<d_v, devUsed>>
  /\ UNCHANGED <<hostc, devMem, seed, kernel, devc, d_z, genCount, th,
                 stored, h_v, agg, result, lay>>

\* cudaMalloc(&d_z, sizeof(float) * 2 * h_N * NPATH), checked
AllocZ ==
  /\ pc = "alloc_z"
  /\ IF MallocOK(devMem - devUsed, BytesZ(hostc))
     THEN /\ d_z' = Buffer(ZLen)
          /\ devUsed' = devUsed + BytesZ(hostc)
          /\ pc' = "host"
     ELSE /\ pc' = "failed"
          /\ UNCHANGED <<d_z, devUsed>>
  /\ UNCHANGED <<hostc, devMem, seed, kernel, devc, genCount, d_v, th,
                 stored, h_v, agg, result, lay>>

\* lines 145-152: the host constants, the last four computed from the others
HostConstants ==
  /\ pc = "host"
  /\ hostc' = HostValues(hostc)
  /\ pc' = "consts"
  /\ UNCHANGED <<devMem, devUsed, seed, kernel, devc, d_z, genCount, d_v, th,
                 stored, h_v, agg, result, lay>>

\* the nine cudaMemcpyToSymbol
SetConstants ==
  /\ pc = "consts"
  /\ devc' = StoredConstants(hostc, Len(CopyOrder))
  /\ pc' = "generate"
  /\ UNCHANGED <<hostc, devMem, devUsed, seed, kernel, d_z, genCount, d_v,
                 th, stored, h_v, agg, result, lay>>

\* curandCreateGenerator, the seed, curandGenerateNormal: the generation is
\* queued on the device and main goes on to cudaEventSynchronize
LaunchGenerate ==
  /\ pc = "generate"
  /\ pc' = "sync_gen"
  /\ UNCHANGED <<hostc, devMem, devUsed, seed, kernel, devc, d_z, genCount,
                 d_v, th, stored, h_v, agg, result, lay>>

GenLaunched ==
  pc \in {"sync_gen", "launch", "sync_kernel", "memcpy", "sum", "tidy"}

\* the device fills the next position of d_z
GenStep ==
  /\ GenLaunched
  /\ genCount < ZLen
  /\ d_z' = [d_z EXCEPT ![genCount] = GenValue(seed, genCount)]
  /\ genCount' = genCount + 1
  /\ UNCHANGED <<pc, hostc, devMem, devUsed, seed, kernel, devc, d_v, th,
                 stored, h_v, agg, result, lay>>

\* cudaEventSynchronize(stop) after the generation
SyncGen ==
  /\ pc = "sync_gen"
  /\ GenComplete
  /\ pc' = "launch"
  /\ UNCHANGED <<hostc, devMem, devUsed, seed, kernel, devc, d_z, genCount,
                 d_v, th, stored, h_v, agg, result, lay>>

\* pathcalc<<<NPATH / 64, 64>>>(d_z, d_v): the threads exist from here on.
\* A grid of no block is an invalid launch configuration: no thread runs and
\* getLastCudaError ends main.
LaunchKernel ==
  /\ pc = "launch"
  /\ IF GridDim(hostc) > 0
     THEN /\ th' = [p \in GridThreads(hostc) |->
                      ThreadStart(kernel, devc, ThreadIdx(p, hostc.B),
                                  BlockIdx(p, hostc.B), hostc.B)]
          /\ stored' = [p \in GridThreads(hostc) |-> <<>>]
          /\ pc' = "sync_kernel"
     ELSE /\ pc' = "failed"
          /\ UNCHANGED <<th, stored>>
  /\ UNCHANGED <<hostc, devMem, devUsed, seed, kernel, devc, d_z, genCount,
                 d_v, h_v, agg, result, lay>>

\* thread p runs one iteration of its loop; the kernel follows the generation
\* in the same stream
ThreadIter(p) ==
  /\ p \in DOMAIN th
  /\ GenComplete
  /\ th[p].pc = "loop"
  /\ th[p].n < devc.N
  /\ \E y1 \in ReadVals(ReadZ(d_z, th[p].i)) :
       \E z2 \in ReadVals(ReadZ(d_z, SecondRead(kernel, th[p], hostc.B))) :
         th' = [th EXCEPT ![p] = LoopStep(kernel, hostc.fmad, devc, y1, z2,
                                          th[p], hostc.B)]
  /\ UNCHANGED <<pc, hostc, devMem, devUsed, seed, kernel, devc, d_z,
                 genCount, d_v, stored, h_v, agg, result, lay>>

\* thread p leaves the loop, computes its payoff and stores it
ThreadStore(p) ==
  /\ p \in DOMAIN th
  /\ GenComplete
  /\ th[p].pc = "loop"
  /\ ~(th[p].n < devc.N)
  /\ LET slot == StoreSlot(ThreadIdx(p, hostc.B), BlockIdx(p, hostc.B), hostc.B)
     IN /\ d_v' = [d_v EXCEPT ![slot] = Payoff(devc, th[p])]
        /\ stored' = [stored EXCEPT ![p] = Append(stored[p], slot)]
  /\ th' = [th EXCEPT ![p].pc = "done"]
  /\ UNCHANGED <<pc, hostc, devMem, devUsed, seed, kernel, devc, d_z,
                 genCount, h_v, agg, result, lay>>

\* cudaEventSynchronize(stop) after the kernel
SyncKernel ==
  /\ pc = "sync_kernel"
  /\ KernelComplete
  /\ pc' = "memcpy"
  /\ UNCHANGED <<hostc, devMem, devUsed, seed, kernel, devc, d_z, genCount,
                 d_v, th, stored, h_v, agg, result, lay>>

\* cudaMemcpy(h_v, d_v, ..., cudaMemcpyDeviceToHost), then sum1 = sum2 = 0
CopyBack ==
  /\ pc = "memcpy"
  /\ KernelComplete
  /\ h_v' = d_v
  /\ agg' = NoAgg
  /\ pc' = "sum"
  /\ UNCHANGED <<hostc, devMem, devUsed, seed, kernel, devc, d_z, genCount,
                 d_v, th, stored, result, lay>>

\* one iteration of the averaging loop
SumStep ==
  /\ pc = "sum"
  /\ agg.i < hostc.NPATH
  /\ \E v \in ReadVals(h_v[agg.i]) : agg' = Accumulate(agg, v)
  /\ UNCHANGED <<pc, hostc, devMem, devUsed, seed, kernel, devc, d_z,
                 genCount, d_v, th, stored, h_v, result, lay>>

\* the final printf
PrintResult ==
  /\ pc = "sum"
  /\ ~(agg.i < hostc.NPATH)
  /\ result' = Report(agg, hostc.NPATH)
  /\ pc' = "tidy"
  /\ UNCHANGED <<hostc, devMem, devUsed, seed, kernel, devc, d_z, genCount,
                 d_v, th, stored, h_v, agg, lay>>

\* curandDestroyGenerator, free(h_v), cudaFree(d_v), cudaFree(d_z),
\* cudaDeviceReset: the three buffers are gone, the device memory is free
Release ==
  /\ pc = "tidy"
  /\ h_v' = Buffer(0)
  /\ d_v' = Buffer(0)
  /\ d_z' = Buffer(0)
  /\ devUsed' = 0
  /\ pc' = "done"
  /\ UNCHANGED <<hostc, devMem, seed, kernel, devc, genCount, th, stored,
                 agg, result, lay>>

\* the steps of main made of calls under checkCudaErrors / getLastCudaError
CheckedSteps ==
  {"alloc_v", "alloc_z", "consts", "generate", "launch", "memcpy", "tidy"}

\* the calls of a step that can have been made when a checked call of the
\* step fails: of the nine copies of the constants, 0 to 8; of the release,
\* none (curandDestroyGenerator fails), free(h_v) (cudaFree(d_v) fails),
\* free(h_v) and cudaFree(d_v) (cudaFree(d_z) fails)
CallsBefore(step) ==
  IF step = "consts" THEN 0 .. (Len(CopyOrder) - 1)
  ELSE IF step = "tidy" THEN 0 .. 2
  ELSE {0}

\* a checked call returns an error (for a reason outside the program), after
\* done calls of the step have been made: the message is printed and main
\* ends with exit(EXIT_FAILURE)
CudaError ==
  /\ pc \in CheckedSteps
  /\ \E done \in CallsBefore(pc) :
       /\ devc' = IF pc = "consts" THEN StoredConstants(hostc, done) ELSE devc
       /\ h_v' = IF pc = "tidy" /\ done >= 1 THEN Buffer(0) ELSE h_v
       /\ d_v' = IF pc = "tidy" /\ done >= 2 THEN Buffer(0) ELSE d_v
       /\ devUsed' = IF pc = "tidy" /\ done >= 2 THEN devUsed - BytesV(hostc)
                     ELSE devUsed
  /\ pc' = "failed"
  /\ UNCHANGED <<hostc, devMem, seed, kernel, d_z, genCount, th, stored, agg,
                 result, lay>>

Next ==
  \/ AllocV
  \/ AllocZ
  \/ HostConstants
  \/ SetConstants
  \/ LaunchGenerate
  \/ GenStep
  \/ SyncGen
  \/ LaunchKernel
  \/ \E p \in 0 .. (MaxThreads - 1) : ThreadIter(p)
  \/ \E p \in 0 .. (MaxThreads - 1) : ThreadStore(p)
  \/ SyncKernel
  \/ CopyBack
  \/ SumStep
  \/ PrintResult
  \/ Release
  \/ CudaError

Spec == Init /\ [][Next]_vars

\* ------------------------------------------------- the two-layout harness
\* Both kernels are run for one path p of a grid, pathcalcV1 and then
\* pathcalcV2, each on its own buffer.  The two buffers hold the same logical
\* shocks: path p's 2N shocks sh[2*n + leg], and 0 for every other path, each
\* at the position the kernel reads it from.
\* the shocks: -1, and 0.50000012 (0x3f000002), a draw at which the builds
\* with and without contraction compute different levels
ShockVals == {IntToFloat(0 - 1), Num(0, TwoP23 + 2, 0 - 24)}
Filler == IntToFloat(0)

\* <<r, rho, fmad>>
LayParams ==
  {<<FZero(0), Lit(1, 2), "off">>, <<Lit(5, 100), Lit(1, 2), "off">>,
   <<Lit(5, 100), Lit(1, 2), "first">>, <<Lit(5, 100), Lit(1, 2), "second">>,
   <<FZero(0), One, "off">>, <<Lit(5, 100), One, "first">>}

LayConfigs ==
  {Config(g, pr[1], Tenth, pr[2], pr[3]) : g \in Grids, pr \in LayParams}

\* the position of the m-th read (m = 2*step + leg) of path q: the initial i
\* and m increments
ReadPos(kern, n, bdim, q, m) ==
  InitIndex(kern, n, ThreadIdx(q, bdim), BlockIdx(q, bdim), bdim)
    + m * Stride(kern, bdim)

\* the buffer of one kernel: a position read by path p alone holds p's shock
LayBuffer(kern, h, p, sh) ==
  [i \in 0 .. (2 * h.N * h.NPATH - 1) |->
     LET own == {m \in 0 .. (2 * h.N - 1) : ReadPos(kern, h.N, h.B, p, m) = i}
         others == \E q \in (0 .. (h.NPATH - 1)) \ {p} :
                     \E m \in 0 .. (2 * h.N - 1) :
                       ReadPos(kern, h.N, h.B, q, m) = i
     IN IF own # {} /\ ~others THEN sh[CHOOSE m \in own : TRUE] ELSE Filler]

\* path p with the shocks sh, under the constants c of the configuration h
LayStart(h, c, p, sh) ==
  [pc |-> "run", h |-> h, c |-> c, p |-> p, sh |-> sh,
   z |-> [kern \in Kernels |-> LayBuffer(kern, h, p, sh)],
   t |-> [kern \in Kernels |->
            ThreadStart(kern, c, ThreadIdx(p, h.B), BlockIdx(p, h.B), h.B)],
   out |-> [kern \in Kernels |-> Buffer(h.NPATH)]]

\* every path and every choice of its shocks
LayStarts(h) ==
  LET c == DeviceConstants(HostValues(h))
  IN {LayStart(h, c, p, sh) :
        p \in 0 .. (h.NPATH - 1), sh \in [0 .. (2 * h.N - 1) -> ShockVals]}

InitLayout ==
  /\ \E h \in LayConfigs : lay \in LayStarts(h)
  /\ pc = "off"
  /\ hostc = [N |-> 0, B |-> 1, NPATH |-> 0]
  /\ devMem = 0
  /\ devUsed = 0
  /\ seed = CodeSeed
  /\ kernel = "V2"
  /\ devc = ZeroConstants
  /\ d_z = Buffer(0)
  /\ genCount = 0
  /\ d_v = Buffer(0)
  /\ th = Buffer(0)
  /\ stored = Buffer(0)
  /\ h_v = Buffer(0)
  /\ agg = NoAgg
  /\ result = NoResult

\* path p's thread of kernel kern runs one iteration of its loop
LayIter(kern) ==
  /\ lay.pc = "run"
  /\ kern = "V2" => lay.t["V1"].pc = "done"
  /\ lay.t[kern].pc = "loop"
  /\ lay.t[kern].n < lay.c.N
  /\ \E y1 \in ReadVals(ReadZ(lay.z[kern], lay.t[kern].i)) :
       \E z2 \in ReadVals(ReadZ(lay.z[kern],
                                SecondRead(kern, lay.t[kern], lay.h.B))) :
         lay' = [lay EXCEPT
                   !.t[kern] = LoopStep(kern, lay.h.fmad, lay.c, y1, z2,
                                        lay.t[kern], lay.h.B)]
  /\ UNCHANGED <<pc, hostc, devMem, devUsed, seed, kernel, devc, d_z,
                 genCount, d_v, th, stored, h_v, agg, result>>

\* path p's thread of kernel kern stores its payoff
LayStore(kern) ==
  /\ lay.pc = "run"
  /\ kern = "V2" => lay.t["V1"].pc = "done"
  /\ lay.t[kern].pc = "loop"
  /\ ~(lay.t[kern].n < lay.c.N)
  /\ LET slot == StoreSlot(ThreadIdx(lay.p, lay.h.B), BlockIdx(lay.p, lay.h.B),
                           lay.h.B)
     IN lay' = [lay EXCEPT !.t[kern].pc = "done",
                           !.out[kern][slot] = Payoff(lay.c, lay.t[kern])]
  /\ UNCHANGED <<pc, hostc, devMem, devUsed, seed, kernel, devc, d_z,
                 genCount, d_v, th, stored, h_v, agg, result>>

NextLayout ==
  \/ \E kern \in Kernels : LayIter(kern)
  \/ \E kern \in Kernels : LayStore(kern)

SpecLayout == InitLayout /\ [][NextLayout]_vars

\* ============================================================== the claims

\* ---- SpecLayout: the index arithmetic and one path's recurrence

LayPaths == 0 .. (lay.h.NPATH - 1)
LayReads == 0 .. (2 * lay.h.N - 1)
LayPos(kern, q, m) == ReadPos(kern, lay.h.N, lay.h.B, q, m)

\* C1: for both kernels, every (pathId, stepIndex, leg) of the grid is read
\* from a position in [0, 2*N*P), and no two triples are read from the same
\* position: the 2*N*P triples are read from 2*N*P different positions, which
\* are then all of [0, 2*N*P).  The running thread's index i is the position
\* of its next read.
C1_OffsetBijection ==
  lay.pc = "run" =>
    \A kern \in Kernels :
      LET reads == {LayPos(kern, q, m) : q \in LayPaths, m \in LayReads}
      IN /\ \A x \in reads : 0 <= x /\ x < 2 * lay.h.N * lay.h.NPATH
         /\ Cardinality(reads) = Cardinality(LayPaths \X LayReads)
         /\ reads = 0 .. (2 * lay.h.N * lay.h.NPATH - 1)
         /\ lay.t[kern].i = LayPos(kern, lay.p, 2 * lay.t[kern].n)

\* the last path of a grid of two blocks of two threads has read, in both
\* layouts, all its positions, the last of them the buffer's last position
C1_Witness ==
  /\ lay.pc = "run"
  /\ lay.h.B = 2
  /\ lay.h.NPATH = 4
  /\ lay.h.N = 2
  /\ lay.p = 3
  /\ \A kern \in Kernels :
       /\ lay.t[kern].n = 2
       /\ lay.t[kern].i - Stride(kern, lay.h.B) = 2 * lay.h.N * lay.h.NPATH - 1

\* C2: when the two buffers hold the same logical shocks, each in its own
\* layout, pathcalcV1 and pathcalcV2 leave the same payoff array: the payoff
\* in slot pathId, every other slot untouched.
C2_LayoutEquivalence ==
  (lay.pc = "run" /\ \A kern \in Kernels : lay.t[kern].pc = "done") =>
     /\ lay.out["V1"] = lay.out["V2"]
     /\ IsNum(lay.out["V1"][lay.p])

\* both kernels have paid the discount factor for a path of the second block,
\* from buffers that differ
C2_Witness ==
  /\ lay.pc = "run"
  /\ \A kern \in Kernels : lay.t[kern].pc = "done"
  /\ lay.h.B = 2
  /\ lay.h.NPATH = 4
  /\ lay.h.N = 2
  /\ lay.p = 2
  /\ lay.z["V1"] # lay.z["V2"]
  /\ lay.out["V1"][2] = Discount(lay.c)
  /\ lay.out["V2"][2] = Discount(lay.c)

\* |s - 1| < 1/10 in exact arithmetic, for a float s: s = m * 2^e with m of
\* 24 digits, so s is in [1,2) when e = -23 and in [1/2,1) when e = -24
InsideBand(s) ==
  /\ s.k = "num"
  /\ s.s = 0
  /\ \/ s.e = 0 - 23 /\ 10 * (s.m - TwoP23) < TwoP23
     \/ s.e = 0 - 24 /\ 10 * (TwoP24 - s.m) < TwoP24

\* exp(-r*T) for the host's parameters
DiscountFactor(h) == FExp(FNeg(FMul(h.r, h.T)))

\* C6: the value a path stores is 0 or exp(-r*T), and it is exp(-r*T)
\* exactly when |s1 - 1| < 0.1 and |s2 - 1| < 0.1 after its N steps.
C6_PayoffValues ==
  lay.pc = "run" =>
    \A kern \in Kernels :
      lay.t[kern].pc = "done" =>
        /\ lay.out[kern][lay.p] \in {FZero(0), DiscountFactor(lay.h)}
        /\ (lay.out[kern][lay.p] = DiscountFactor(lay.h))
             <=> (InsideBand(lay.t[kern].s1) /\ InsideBand(lay.t[kern].s2))

\* a path that ends with s1 below the band and s2 inside it is paid nothing
C6_Witness ==
  /\ lay.pc = "run"
  /\ lay.t["V1"].pc = "done"
  /\ FLess(lay.t["V1"].s1, One)
  /\ ~InsideBand(lay.t["V1"].s1)
  /\ InsideBand(lay.t["V1"].s2)
  /\ lay.out["V1"][lay.p] = FZero(0)

\* C7: with correlation 1, alpha is 0 and, for both kernels, after every step
\* of the recurrence y2 = y1 and s1 = s2.
C7_FullCorrelation ==
  (lay.pc = "run" /\ lay.h.rho = One) =>
     /\ lay.c.alpha = FZero(0)
     /\ \A kern \in Kernels :
          /\ lay.t[kern].s1 = lay.t[kern].s2
          /\ IsNum(lay.t[kern].s1)
          /\ lay.t[kern].n > 0 => lay.t[kern].y2 = lay.t[kern].y1

\* with correlation 1, a path has run its two steps, and in each step the
\* second leg's raw draw differed from the first leg's
C7_Witness ==
  /\ lay.pc = "run"
  /\ lay.h.rho = One
  /\ lay.h.N = 2
  /\ lay.t["V2"].n = 2
  /\ lay.t["V1"].n = 2
  /\ lay.sh[0] # lay.sh[1]
  /\ lay.sh[2] # lay.sh[3]
  /\ lay.t["V2"].y1 = lay.sh[2]

\* ---- Spec: a run of main

Started(p) == th[p].n > 0 \/ th[p].pc = "done"

C4_SingleWriter ==
  [][ /\ \A p \in DOMAIN th :
           (th[p].pc = "loop" /\ th'[p] # th[p]) =>
              /\ d_z' = d_z
              /\ devc' = devc
              /\ hostc' = hostc
              /\ \A q \in DOMAIN d_v : q # p => d_v'[q] = d_v[q]
              /\ \A q \in DOMAIN stored : q # p => stored'[q] = stored[q]
              /\ th'[p].pc = "loop" => (d_v' = d_v /\ stored' = stored)
      /\ \A p \in DOMAIN th' :
           /\ stored'[p] \in {<<>>, <<p>>}
           /\ th'[p].pc = "done" <=> stored'[p] = <<p>>
    ]_vars

\* two paths of different blocks have stored, each into its own slot, while
\* another path is still running
C4_Witness ==
  /\ hostc.B = 2
  /\ hostc.NPATH = 4
  /\ DOMAIN th = 0 .. 3
  /\ stored[1] = <<1>>
  /\ stored[2] = <<2>>
  /\ IsNum(d_v[1])
  /\ IsNum(d_v[2])
  /\ d_v[0] = Uninit
  /\ th[0].pc = "loop"
  /\ th[3].pc = "loop"

ExpectedBuffer(h, sd) ==
  [i \in 0 .. (2 * h.N * h.NPATH - 1) |-> GenValue(sd, i)]
ExpectedPayoffs(kern, h, sd) ==
  LET c == DeviceConstants(h)
      z == ExpectedBuffer(h, sd)
  IN [p \in 0 .. (h.NPATH - 1) |-> PathPayoff(kern, h.fmad, c, z, p, h.B)]
ExpectedResult(kern, h, sd) ==
  Report(SumUpTo(ExpectedPayoffs(kern, h, sd), NoAgg, h.NPATH), h.NPATH)

\* main has printed the pair
Printed == result # NoResult

ValidRho(h) == IsNum(h.rho) /\ ~FLess(One, FAbs(h.rho))

NoOutput ==
  /\ genCount = 0
  /\ \A i \in DOMAIN d_z : d_z[i] = Uninit
  /\ DOMAIN th = {}
  /\ \A q \in DOMAIN d_v : d_v[q] = Uninit
  /\ \A q \in DOMAIN h_v : h_v[q] = Uninit
  /\ result = NoResult

\* numSteps <= 0, numPaths <= 0, a correlation outside [-1, 1], or a random
\* buffer of more bytes than the device memory
InvalidConfig ==
  \/ hostc.N <= 0
  \/ hostc.NPATH <= 0
  \/ ~ValidRho(hostc)
  \/ SizeofFloat * 2 * hostc.N * hostc.NPATH > devMem

\* C9: with an invalid configuration (N or P not positive, a correlation
\* outside [-1,1], or a random buffer larger than the device memory) the run
\* is rejected before any generation: nothing is ever generated, simulated
\* or printed.
C9_InvalidConfigRejected == InvalidConfig => NoOutput

\* C10: the standard error a finished run prints is a number >= 0, never the
\* square root of a negative variance.
C10_StdErrorWellDefined ==
  (Printed /\ ValidRho(hostc)) =>
     /\ result.stderr.k = "num"
     /\ result.stderr.s = 0 \/ result.stderr.m = <<>>

=============================================================================
